---------------------------- MODULE Spec2Model ----------------------------
(***************************************************************************)
(* Vital-sign assessment engine: monitor_advanced.py (AdvancedMonitor,     *)
(* PatientProfile, VitalLimits) and monitor_enhanced.py (range tables and  *)
(* the transformation pipeline).                                           *)
(*                                                                         *)
(* Numbers.  Every vital value, limit and band edge is held as an integer  *)
(* count of thousandths (98.6 is 98600, the tolerance 1.5 is 1500).  All   *)
(* limits, table entries and band edges of the program are exact at that   *)
(* resolution, and the inputs are drawn from multiples of 0.005, for which *)
(* c*9/5 is exact as well.                                                 *)
(*                                                                         *)
(* Python values.  A value field holds Num(n), Str (a non-numeric string)  *)
(* or Absent (the key is missing from the input dict).  None is the empty  *)
(* sequence and a set optional is a one-element sequence.                  *)
(*                                                                         *)
(* Messages.  A message is the sequence of the pieces of its text, cut so  *)
(* that every marker word the program searches for is a piece of its own;  *)
(* the empty message is the empty sequence.  Characters outside ASCII are  *)
(* written out (the two emoji as "(siren) " and "(warning sign) ").        *)
(***************************************************************************)
EXTENDS Integers, Sequences, FiniteSets, TLC

\* thousandths per unit
Scale == 10 ^ 3

\* how many 0.005 steps are taken on each side of every band edge
Spread == 2

\* most readings one monitor holds over all its histories
MaxHistory == 3

\* most items of a batch given to the batch calls
MaxBatch == 3

(***************************************************************************)
(* Python values                                                           *)
(***************************************************************************)
Num(n) == [t |-> "num", n |-> n]

Str == [t |-> "str", n |-> 0]

Absent == [t |-> "absent", n |-> 0]

None == << >>

Some(x) == << x >>

\* str.upper() on the unit tokens in use
Upper(u) ==
    CASE u = "c" -> "C"
      [] u = "f" -> "F"
      [] u = "k" -> "K"
      [] u = "bpm" -> "BPM"
      [] u = "mmHg" -> "MMHG"
      [] OTHER -> u

\* outcome of a call: a returned value or a raised exception
Return(v) == [raised |-> "", value |-> v]

Raise(e) == [raised |-> e, value |-> << >>]

(***************************************************************************)
(* monitor_advanced.py: VitalLimits                                        *)
(***************************************************************************)
DefaultWarningTolerance == 1500

VitalLimits(min, max) ==
    [min_val |-> min, max_val |-> max, warning_tolerance |-> DefaultWarningTolerance]

\* the dataclass given all three fields; it has no __post_init__ and checks nothing
VitalLimitsWith(min, max, warning_tolerance) ==
    [min_val |-> min, max_val |-> max, warning_tolerance |-> warning_tolerance]

\* the tolerance taken as a percentage of the upper limit instead of the range
calculate_warning_ranges_of_max(limits) ==
    LET tolerance == (limits.max_val * (limits.warning_tolerance \div 100)) \div Scale
    IN  << limits.min_val,
           limits.min_val + tolerance,
           limits.max_val - tolerance,
           limits.max_val >>

\* range * (warning_tolerance / 100); tolerances are whole tenths of a percent,
\* so the hundred is divided out of the tolerance first and the product stays
\* within 32 bits
calculate_warning_ranges(limits) ==
    LET tolerance == ((limits.max_val - limits.min_val)
                         * (limits.warning_tolerance \div 100)) \div Scale
    IN  << limits.min_val,
           limits.min_val + tolerance,
           limits.max_val - tolerance,
           limits.max_val >>

(***************************************************************************)
(* monitor_advanced.py: PatientProfile                                     *)
(***************************************************************************)
PatientProfile(age, profile_type) == [age |-> age, profile_type |-> profile_type]

\* truth value of self.age: None and 0 are both false
AgeTruthy(age) == age # None /\ age[1] # 0

get_vital_limits(profile, vital_type) ==
    LET pulse == IF AgeTruthy(profile.age) /\ vital_type = "pulseRate"
                 THEN IF profile.age[1] > 65 THEN VitalLimits(50 * Scale, 90 * Scale)
                      ELSE IF profile.age[1] < 18 THEN VitalLimits(80 * Scale, 120 * Scale)
                      ELSE VitalLimits(60 * Scale, 100 * Scale)
                 ELSE VitalLimits(60 * Scale, 100 * Scale)
        base_limits == [k \in {"temperature", "pulseRate", "spo2"} |->
                           CASE k = "temperature" -> VitalLimits(95 * Scale, 102 * Scale)
                             [] k = "pulseRate" -> pulse
                             [] k = "spo2" -> VitalLimits(90 * Scale, 100 * Scale)]
    IN  IF vital_type \in DOMAIN base_limits
        THEN base_limits[vital_type]
        ELSE VitalLimits(0, 100 * Scale)

(***************************************************************************)
(* monitor_advanced.py: AdvancedMonitor message tables                     *)
(***************************************************************************)
AdvMessages ==
    [en |->
       [HYPO_THERMIA |-> << "(siren) ", "CRITICAL", ": Severe hypothermia detected (temp < 95 deg F)" >>,
        NEAR_HYPO |-> << "(warning sign) ", "WARNING", ": Temperature approaching hypothermia range" >>,
        NORMAL |-> << >>,
        NEAR_HYPER |-> << "(warning sign) ", "WARNING", ": Temperature approaching hyperthermia range" >>,
        HYPER_THERMIA |-> << "(siren) ", "CRITICAL", ": Severe hyperthermia detected (temp > 102 deg F)" >>,
        BRADY_CARDIA |-> << "(siren) ", "CRITICAL", ": Severe bradycardia detected" >>,
        NEAR_BRADY |-> << "(warning sign) ", "WARNING", ": Heart rate approaching bradycardia range" >>,
        NEAR_TACHY |-> << "(warning sign) ", "WARNING", ": Heart rate approaching tachycardia range" >>,
        TACHY_CARDIA |-> << "(siren) ", "CRITICAL", ": Severe tachycardia detected" >>,
        LOW_OXYGEN |-> << "(siren) ", "CRITICAL", ": Severe hypoxemia detected" >>,
        NEAR_LOW_OXYGEN |-> << "(warning sign) ", "WARNING", ": Oxygen saturation approaching critical low" >>,
        NEAR_HIGH_OXYGEN |-> << "(warning sign) ", "WARNING", ": Oxygen saturation unusually high" >>,
        HIGH_OXYGEN |-> << "(siren) ", "CRITICAL", ": Hyperoxemia detected" >>],
     de |->
       [HYPO_THERMIA |-> << "(siren) ", "KRITISCH", ": Schwere Unterkuehlung erkannt" >>,
        NEAR_HYPO |-> << "(warning sign) ", "WARNUNG", ": Temperatur naehert sich Unterkuehlungsbereich" >>,
        NORMAL |-> << >>,
        NEAR_HYPER |-> << "(warning sign) ", "WARNUNG", ": Temperatur naehert sich Ueberhitzungsbereich" >>,
        HYPER_THERMIA |-> << "(siren) ", "KRITISCH", ": Schwere Ueberhitzung erkannt" >>,
        BRADY_CARDIA |-> << "(siren) ", "KRITISCH", ": Schwere Bradykardie erkannt" >>,
        NEAR_BRADY |-> << "(warning sign) ", "WARNUNG", ": Herzfrequenz naehert sich Bradykardie" >>,
        NEAR_TACHY |-> << "(warning sign) ", "WARNUNG", ": Herzfrequenz naehert sich Tachykardie" >>,
        TACHY_CARDIA |-> << "(siren) ", "KRITISCH", ": Schwere Tachykardie erkannt" >>,
        LOW_OXYGEN |-> << "(siren) ", "KRITISCH", ": Schwere Hypoxaemie erkannt" >>,
        NEAR_LOW_OXYGEN |-> << "(warning sign) ", "WARNUNG", ": Sauerstoffsaettigung naehert sich kritischem Niveau" >>,
        NEAR_HIGH_OXYGEN |-> << "(warning sign) ", "WARNUNG", ": Sauerstoffsaettigung ungewoehnlich hoch" >>,
        HIGH_OXYGEN |-> << "(siren) ", "KRITISCH", ": Hyperoxaemie erkannt" >>]]

\* the Python test  marker in message
Contains(message, marker) == \E i \in DOMAIN message : message[i] = marker

(***************************************************************************)
(* monitor_advanced.py: AdvancedMonitor                                    *)
(* A monitor is [patient_profile, language, vital_history]; vital_history  *)
(* is a function whose domain is the set of keys of the Python dict.  A    *)
(* reading is [value, unit, source]; its timestamp is left out, nothing in *)
(* the program reads it but the report formatting.                         *)
(***************************************************************************)
VitalReading(value, unit, source) == [value |-> value, unit |-> unit, source |-> source]

\* the unit compared without .upper()
convert_units_case_sensitive(reading, vital_type) ==
    IF vital_type = "temperature" /\ reading.unit = "C"
    THEN IF reading.value.t = "num"
         THEN Return(Num((reading.value.n * 9) \div 5 + 32 * Scale))
         ELSE Raise("TypeError")
    ELSE IF vital_type = "temperature" /\ reading.unit \notin {"C", "F"}
    THEN Raise("ValueError")
    ELSE Return(reading.value)

convert_units(reading, vital_type) ==
    IF vital_type = "temperature" /\ Upper(reading.unit) = "C"
    THEN IF reading.value.t = "num"
         THEN Return(Num((reading.value.n * 9) \div 5 + 32 * Scale))
         ELSE Raise("TypeError")
    ELSE IF vital_type = "temperature" /\ Upper(reading.unit) \notin {"C", "F"}
    THEN Raise("ValueError")
    ELSE Return(reading.value)

\* conditions_map.get(vital_type, VitalCondition.NORMAL)
ConditionFor(conditions_map, vital_type) ==
    IF vital_type \in DOMAIN conditions_map THEN conditions_map[vital_type] ELSE "NORMAL"

\* the if/elif chain of assess_vital on the converted value v
ConditionOf(vital_type, v, min_val, near_min, near_max, max_val) ==
    IF v < min_val
    THEN ConditionFor([temperature |-> "HYPO_THERMIA", pulseRate |-> "BRADY_CARDIA",
                       spo2 |-> "LOW_OXYGEN"], vital_type)
    ELSE IF min_val <= v /\ v <= near_min
    THEN ConditionFor([temperature |-> "NEAR_HYPO", pulseRate |-> "NEAR_BRADY",
                       spo2 |-> "NEAR_LOW_OXYGEN"], vital_type)
    ELSE IF near_max <= v /\ v < max_val
    THEN ConditionFor([temperature |-> "NEAR_HYPER", pulseRate |-> "NEAR_TACHY",
                       spo2 |-> "NEAR_HIGH_OXYGEN"], vital_type)
    ELSE IF v >= max_val
    THEN ConditionFor([temperature |-> "HYPER_THERMIA", pulseRate |-> "TACHY_CARDIA",
                       spo2 |-> "HIGH_OXYGEN"], vital_type)
    ELSE "NORMAL"

\* self.messages[self.language].get(condition, ""), returned with the condition
WithMessage(language, condition) ==
    [condition |-> condition,
     message |-> IF condition \in DOMAIN AdvMessages[language]
                 THEN AdvMessages[language][condition]
                 ELSE << >>]

\* assess_vital from the converted value and the warning ranges on; comparing
\* a value that is not a number with the limits raises TypeError
AssessConverted(self, vital_type, converted, ranges) ==
    IF converted.raised # ""
    THEN Raise(converted.raised)
    ELSE IF converted.value.t # "num"
    THEN Raise("TypeError")
    ELSE Return(WithMessage(self.language,
                    ConditionOf(vital_type, converted.value.n,
                                ranges[1], ranges[2], ranges[3], ranges[4])))

assess_vital(self, vital_type, reading) ==
    AssessConverted(self, vital_type,
        convert_units(reading, vital_type),
        calculate_warning_ranges(get_vital_limits(self.patient_profile, vital_type)))

\* vital_data.get(key, default) on an optional field of the input dict
GetOr(field, default) == IF field = None THEN default ELSE field[1]

\* the history of the vital type started anew with the reading
AppendHistory_restart(history, vital_type, reading) ==
    IF vital_type \in DOMAIN history
    THEN [history EXCEPT ![vital_type] = << reading >>]
    ELSE history @@ (vital_type :> << reading >>)

\* self.vital_history after the append of lines 247-249
AppendHistory(history, vital_type, reading) ==
    IF vital_type \in DOMAIN history
    THEN [history EXCEPT ![vital_type] = Append(@, reading)]
    ELSE history @@ (vital_type :> << reading >>)

\* the reading monitor_vitals makes of an input: a dict is converted, a
\* VitalReading is taken as it is
ReadingOf(vital_data) ==
    IF vital_data.is_dict
    THEN VitalReading(vital_data.value,
                      GetOr(vital_data.unit, ""),
                      GetOr(vital_data.source, "manual"))
    ELSE VitalReading(vital_data.value, vital_data.unit[1], vital_data.source[1])

\* results['assessments'][vital_type] = entry
PutAssessment(acc, vital_type, entry) ==
    [acc EXCEPT !.assessments = (vital_type :> entry) @@ @]

\* the categorisation by the English marker words alone
Categorize_english_only(acc, vital_type, message) ==
    IF Contains(message, "CRITICAL")
    THEN [acc EXCEPT !.critical_alerts = Append(@, << vital_type, message >>),
                     !.critical_count = @ + 1]
    ELSE IF Contains(message, "WARNING")
    THEN [acc EXCEPT !.warnings = Append(@, << vital_type, message >>),
                     !.warning_count = @ + 1]
    ELSE acc

\* the categorisation of lines 263-268
Categorize(acc, vital_type, message) ==
    IF Contains(message, "CRITICAL") \/ Contains(message, "KRITISCH")
    THEN [acc EXCEPT !.critical_alerts = Append(@, << vital_type, message >>),
                     !.critical_count = @ + 1]
    ELSE IF Contains(message, "WARNING") \/ Contains(message, "WARNUNG")
    THEN [acc EXCEPT !.warnings = Append(@, << vital_type, message >>),
                     !.warning_count = @ + 1]
    ELSE acc

\* a failed assessment left out of the report
RecordAssessed_drop_failed(acc, vital_type, reading, assessed) ==
    IF assessed.raised # ""
    THEN acc
    ELSE Categorize(
             PutAssessment(acc, vital_type,
                 [value |-> reading.value, unit |-> reading.unit,
                  condition |-> assessed.value.condition,
                  message |-> assessed.value.message]),
             vital_type, assessed.value.message)

\* the loop body from the assessment on: the entry of a successful assessment
\* and its categorisation, or the ERROR entry of the except clause
RecordAssessed(acc, vital_type, reading, assessed) ==
    IF assessed.raised # ""
    THEN PutAssessment(acc, vital_type, [error |-> assessed.raised, condition |-> "ERROR"])
    ELSE Categorize(
             PutAssessment(acc, vital_type,
                 [value |-> reading.value, unit |-> reading.unit,
                  condition |-> assessed.value.condition,
                  message |-> assessed.value.message]),
             vital_type, assessed.value.message)

\* the loop body once the reading is built: the append to the history, then
\* the assessment
MonitorReading(self, acc, vital_type, reading) ==
    RecordAssessed([acc EXCEPT !.history = AppendHistory(@, vital_type, reading)],
                   vital_type, reading, assess_vital(self, vital_type, reading))

\* one pass of the for loop of monitor_vitals over the item <<vital_type, vital_data>>;
\* acc is [history, assessments, critical_alerts, warnings, critical_count,
\* warning_count]; a dict without 'value' raises KeyError before anything is stored
MonitorEntry(self, acc, vital_type, vital_data) ==
    IF vital_data.is_dict /\ vital_data.value = Absent
    THEN PutAssessment(acc, vital_type, [error |-> "KeyError", condition |-> "ERROR"])
    ELSE MonitorReading(self, acc, vital_type, ReadingOf(vital_data))

RECURSIVE MonitorLoop(_, _, _)
MonitorLoop(self, acc, vitals) ==
    IF vitals = << >>
    THEN acc
    ELSE MonitorLoop(self, MonitorEntry(self, acc, Head(vitals)[1], Head(vitals)[2]),
                     Tail(vitals))

\* self.vital_history.get(vital_type, [])
HistoryOf(history, vital_type) ==
    IF vital_type \in DOMAIN history THEN history[vital_type] ELSE << >>

\* the warnings looked at before the critical alerts
Report_warning_first(self, acc) ==
    [history |-> acc.history,
     results |->
        [patient_profile |-> self.patient_profile,
         assessments |-> acc.assessments,
         overall_status |-> IF acc.warning_count > 0 THEN "WARNING"
                            ELSE IF acc.critical_count > 0 THEN "CRITICAL"
                            ELSE "NORMAL",
         critical_alerts |-> acc.critical_alerts,
         warnings |-> acc.warnings,
         recommendations |->
            (IF acc.warning_count > 0
             THEN << "Monitor closely and consider medical consultation" >>
             ELSE IF acc.critical_count > 0
             THEN << "Immediate medical attention required" >>
             ELSE << >>)
            \o (IF Len(HistoryOf(acc.history, "temperature")) > 1
                THEN << "Trending data available for analysis" >>
                ELSE << >>)]]

\* lines 277-291: the overall status and the recommendations
Report(self, acc) ==
    [history |-> acc.history,
     results |->
        [patient_profile |-> self.patient_profile,
         assessments |-> acc.assessments,
         overall_status |-> IF acc.critical_count > 0 THEN "CRITICAL"
                            ELSE IF acc.warning_count > 0 THEN "WARNING"
                            ELSE "NORMAL",
         critical_alerts |-> acc.critical_alerts,
         warnings |-> acc.warnings,
         recommendations |->
            (IF acc.critical_count > 0
             THEN << "Immediate medical attention required" >>
             ELSE IF acc.warning_count > 0
             THEN << "Monitor closely and consider medical consultation" >>
             ELSE << >>)
            \o (IF Len(HistoryOf(acc.history, "temperature")) > 1
                THEN << "Trending data available for analysis" >>
                ELSE << >>)]]

\* monitor_vitals: vitals is the dict as the sequence of its items in iteration order;
\* the outcome is [history, results]
monitor_vitals(self, vitals) ==
    Report(self,
        MonitorLoop(self,
            [history |-> self.vital_history, assessments |-> << >>,
             critical_alerts |-> << >>, warnings |-> << >>,
             critical_count |-> 0, warning_count |-> 0],
            vitals))

\* lst[start:] of Python for any integer start, on a sequence
SliceFrom(lst, start) ==
    LET from == IF start < 0
                THEN (IF Len(lst) + start < 0 THEN 0 ELSE Len(lst) + start)
                ELSE (IF start > Len(lst) THEN Len(lst) ELSE start)
    IN  SubSeq(lst, from + 1, Len(lst))

\* get_vital_trends: the dicts made of self.vital_history[vital_type][-limit:],
\* without their timestamps
get_vital_trends(self, vital_type, limit) ==
    IF vital_type \notin DOMAIN self.vital_history
    THEN << >>
    ELSE [i \in DOMAIN SliceFrom(self.vital_history[vital_type], 0 - limit) |->
             [value |-> SliceFrom(self.vital_history[vital_type], 0 - limit)[i].value,
              unit |-> SliceFrom(self.vital_history[vital_type], 0 - limit)[i].unit,
              source |-> SliceFrom(self.vital_history[vital_type], 0 - limit)[i].source]]

(***************************************************************************)
(* monitor_enhanced.py: range tables.  A range is [min, max, condition];   *)
(* float('-inf') and float('inf') are None.                                *)
(***************************************************************************)
Range(min, max, condition) == [min |-> min, max |-> max, condition |-> condition]

TEMP_RANGES ==
    << Range(None, Some(94990), "HYPO_THERMIA"),
       Range(Some(95 * Scale), Some(96530), "NEAR_HYPO"),
       Range(Some(96540), Some(100460), "NORMAL"),
       Range(Some(100470), Some(101990), "NEAR_HYPER"),
       Range(Some(102 * Scale), None, "HYPER_THERMIA") >>

PULSE_RANGES ==
    << Range(None, Some(59990), "BRADY_CARDIA"),
       Range(Some(60 * Scale), Some(61500), "NEAR_BRADY"),
       Range(Some(61510), Some(98490), "NORMAL"),
       Range(Some(98500), Some(99990), "NEAR_TACHY"),
       Range(Some(100 * Scale), None, "TACHY_CARDIA") >>

SPO2_RANGES ==
    << Range(None, Some(89990), "LOW_OXYGEN"),
       Range(Some(90 * Scale), Some(91500), "NEAR_LOW_OXYGEN"),
       Range(Some(91510), Some(98490), "NORMAL"),
       Range(Some(98500), Some(99990), "NEAR_HIGH_OXYGEN"),
       Range(Some(100 * Scale), None, "HIGH_OXYGEN") >>

MESSAGES ==
    [en |->
       [HYPO_THERMIA |-> << "Temperature ", "critical", "! Hypothermia detected" >>,
        NEAR_HYPO |-> << "Warning", ": Approaching hypothermia" >>,
        NORMAL |-> << >>,
        NEAR_HYPER |-> << "Warning", ": Approaching hyperthermia" >>,
        HYPER_THERMIA |-> << "Temperature ", "critical", "! Hyperthermia detected" >>,
        BRADY_CARDIA |-> << "Pulse Rate ", "critical", "! Bradycardia detected" >>,
        NEAR_BRADY |-> << "Warning", ": Approaching bradycardia" >>,
        NEAR_TACHY |-> << "Warning", ": Approaching tachycardia" >>,
        TACHY_CARDIA |-> << "Pulse Rate ", "critical", "! Tachycardia detected" >>,
        LOW_OXYGEN |-> << "Oxygen Saturation ", "critical", "! Hypoxemia detected" >>,
        NEAR_LOW_OXYGEN |-> << "Warning", ": Approaching low oxygen saturation" >>,
        NEAR_HIGH_OXYGEN |-> << "Warning", ": Approaching high oxygen saturation" >>,
        HIGH_OXYGEN |-> << "Oxygen Saturation ", "critical", "! Hyperoxemia detected" >>],
     de |->
       [HYPO_THERMIA |-> << "Temperatur ", "kritisch", "! Unterkuehlung erkannt" >>,
        NEAR_HYPO |-> << "Warnung", ": Annaeherung an Unterkuehlung" >>,
        NORMAL |-> << >>,
        NEAR_HYPER |-> << "Warnung", ": Annaeherung an Ueberhitzung" >>,
        HYPER_THERMIA |-> << "Temperatur ", "kritisch", "! Ueberhitzung erkannt" >>,
        BRADY_CARDIA |-> << "Puls ", "kritisch", "! Bradykardie erkannt" >>,
        NEAR_BRADY |-> << "Warnung", ": Annaeherung an Bradykardie" >>,
        NEAR_TACHY |-> << "Warnung", ": Annaeherung an Tachykardie" >>,
        TACHY_CARDIA |-> << "Puls ", "kritisch", "! Tachykardie erkannt" >>,
        LOW_OXYGEN |-> << "Sauerstoffsaettigung ", "kritisch", "! Hypoxaemie erkannt" >>,
        NEAR_LOW_OXYGEN |-> << "Warnung", ": Annaeherung an niedrige Sauerstoffsaettigung" >>,
        NEAR_HIGH_OXYGEN |-> << "Warnung", ": Annaeherung an hohe Sauerstoffsaettigung" >>,
        HIGH_OXYGEN |-> << "Sauerstoffsaettigung ", "kritisch", "! Hyperoxaemie erkannt" >>]]

(***************************************************************************)
(* monitor_enhanced.py: the transformation pipeline                        *)
(***************************************************************************)
translate_to_common_units(value, unit, vital_type) ==
    IF vital_type = "temperature" /\ Upper(unit) = "C"
    THEN IF value.t = "num"
         THEN Return(Num((value.n * 9) \div 5 + 32 * Scale))
         ELSE Raise("TypeError")
    ELSE Return(value)

\* the lower bound of a range taken as exclusive
InRange_exclusive_min(v, range) ==
    /\ range.min = None \/ range.min[1] < v
    /\ range.max = None \/ v <= range.max[1]

\* min_val <= value <= max_val
InRange(v, range) ==
    /\ range.min = None \/ range.min[1] <= v
    /\ range.max = None \/ v <= range.max[1]

RECURSIVE FirstMatch(_, _)
FirstMatch(v, ranges) ==
    IF ranges = << >>
    THEN "NORMAL"
    ELSE IF InRange(v, Head(ranges))
    THEN Head(ranges).condition
    ELSE FirstMatch(v, Tail(ranges))

map_value_to_condition(value, ranges) ==
    IF ranges = << >>
    THEN Return("NORMAL")
    ELSE IF value.t # "num"
    THEN Raise("TypeError")
    ELSE Return(FirstMatch(value.n, ranges))

\* the English table for every language
get_condition_message_english(current, condition, language) ==
    IF condition \in DOMAIN MESSAGES["en"] THEN MESSAGES["en"][condition] ELSE << >>

\* current is the global CURRENT_LANGUAGE at the time of the call
get_condition_message(current, condition, language) ==
    LET lang == IF language = None THEN current ELSE language[1]
        table == IF lang \in DOMAIN MESSAGES THEN MESSAGES[lang] ELSE MESSAGES["en"]
    IN  IF condition \in DOMAIN table THEN table[condition] ELSE << >>

\* process_single_vital from the mapped condition on
ProcessMapped(current, mapped) ==
    IF mapped.raised # ""
    THEN Raise(mapped.raised)
    ELSE Return([condition |-> mapped.value,
                 message |-> get_condition_message(current, mapped.value, None)])

\* process_single_vital from the converted value on; an unknown vital name
\* raises KeyError at ranges_map[vital_name], after the conversion
ProcessConverted(current, vital_name, converted) ==
    IF converted.raised # ""
    THEN Raise(converted.raised)
    ELSE IF vital_name \notin {"temperature", "pulseRate", "spo2"}
    THEN Raise("KeyError")
    ELSE ProcessMapped(current,
             map_value_to_condition(converted.value,
                 [temperature |-> TEMP_RANGES, pulseRate |-> PULSE_RANGES,
                  spo2 |-> SPO2_RANGES][vital_name]))

\* vital_data is [is_dict, value, unit, source]; a scalar has is_dict FALSE, and a dict
\* without the key has value Absent, which vital_data.get('value') reads as None
process_single_vital(current, vital_name, vital_data) ==
    ProcessConverted(current, vital_name,
        translate_to_common_units(vital_data.value,
            IF vital_data.is_dict THEN GetOr(vital_data.unit, "") ELSE "",
            vital_name))

(***************************************************************************)
(* monitor_enhanced.py: vitals_ok_enhanced                                 *)
(***************************************************************************)
CRITICAL_CONDITIONS ==
    {"HYPO_THERMIA", "HYPER_THERMIA", "BRADY_CARDIA", "TACHY_CARDIA",
     "LOW_OXYGEN", "HIGH_OXYGEN"}

WARNING_CONDITIONS ==
    {"NEAR_HYPO", "NEAR_HYPER", "NEAR_BRADY", "NEAR_TACHY",
     "NEAR_LOW_OXYGEN", "NEAR_HIGH_OXYGEN"}

\* str.lower() on a piece of a message: the marker words change, no other piece
\* holds a marker word in any case
Lower(piece) ==
    CASE piece = "CRITICAL" -> "critical"
      [] piece = "KRITISCH" -> "kritisch"
      [] piece = "WARNING" -> "warning"
      [] piece = "WARNUNG" -> "warnung"
      [] piece = "Warning" -> "warning"
      [] piece = "Warnung" -> "warnung"
      [] OTHER -> piece

\* "critical" if "critical" in message.lower() else "warning"
classify_message(message) ==
    IF \E i \in DOMAIN message : Lower(message[i]) = "critical"
    THEN "critical"
    ELSE "warning"

\* acc is [failed, warnings, conditions, raised]
categorize_single_message(vital_name, message, acc) ==
    IF message = << >>
    THEN acc
    ELSE IF classify_message(message) = "critical"
    THEN [acc EXCEPT !.failed = Append(@, << vital_name, message >>)]
    ELSE [acc EXCEPT !.warnings = Append(@, << vital_name, message >>)]

\* one pass of the loop of process_vital_messages, from the outcome of
\* process_single_vital on; an exception leaves the loop
ProcessedVital(acc, vital_name, processed) ==
    IF processed.raised # ""
    THEN [acc EXCEPT !.raised = processed.raised]
    ELSE categorize_single_message(vital_name, processed.value.message,
             [acc EXCEPT !.conditions = Append(@, processed.value.condition)])

RECURSIVE process_vital_messages(_, _, _)
process_vital_messages(current, acc, vitals) ==
    IF vitals = << >> \/ acc.raised # ""
    THEN acc
    ELSE process_vital_messages(current,
             ProcessedVital(acc, Head(vitals)[1],
                 process_single_vital(current, Head(vitals)[1], Head(vitals)[2])),
             Tail(vitals))

\* the first component of the result of infer_overall_vitals
infer_overall_vitals(conditions) ==
    IF \E i \in DOMAIN conditions : conditions[i] \in CRITICAL_CONDITIONS
    THEN FALSE
    ELSE IF \E i \in DOMAIN conditions : conditions[i] \in WARNING_CONDITIONS
    THEN FALSE
    ELSE TRUE

\* vitals_ok_enhanced from the result of process_vital_messages on
EnhancedResult(acc) ==
    IF acc.raised # ""
    THEN Raise(acc.raised)
    ELSE Return([overall_ok |-> infer_overall_vitals(acc.conditions),
                 failed |-> acc.failed, warnings |-> acc.warnings])

\* vitals is the dict as the sequence of its items in iteration order
vitals_ok_enhanced(current, vitals) ==
    EnhancedResult(
        process_vital_messages(current,
            [failed |-> << >>, warnings |-> << >>, conditions |-> << >>, raised |-> ""],
            vitals))

\* the input dict a scalar value is wrapped in
Dict(value, unit) == [is_dict |-> TRUE, value |-> value, unit |-> unit, source |-> None]

\* the warnings left out of the failures
vitals_ok_critical_only(current, vitals) ==
    LET enhanced == vitals_ok_enhanced(current,
                        [i \in DOMAIN vitals |->
                            << vitals[i][1], Dict(vitals[i][2].value, Some("")) >>])
    IN  IF enhanced.raised # ""
        THEN Raise(enhanced.raised)
        ELSE Return([all_ok |-> enhanced.value.failed = << >>,
                     failures |-> enhanced.value.failed])

\* vitals_ok of monitor_enhanced: vitals maps names to scalars
vitals_ok(current, vitals) ==
    LET enhanced == vitals_ok_enhanced(current,
                        [i \in DOMAIN vitals |->
                            << vitals[i][1], Dict(vitals[i][2].value, Some("")) >>])
    IN  IF enhanced.raised # ""
        THEN Raise(enhanced.raised)
        ELSE Return([all_ok |-> enhanced.value.failed \o enhanced.value.warnings = << >>,
                     failures |-> enhanced.value.failed \o enhanced.value.warnings])

(***************************************************************************)
(* monitor.py: the strict check against the limits.  vitals maps names to  *)
(* scalars; the module's vitals_ok is legacy_vitals_ok here, the name      *)
(* test_integration.py imports it under.                                   *)
(***************************************************************************)
VITAL_LIMITS ==
    [temperature |-> [min |-> 95 * Scale, max |-> 102 * Scale],
     pulseRate |-> [min |-> 60 * Scale, max |-> 100 * Scale],
     spo2 |-> [min |-> 90 * Scale, max |-> 100 * Scale]]

VITAL_MESSAGES ==
    [temperature |-> << "Temperature ", "critical", "!" >>,
     pulseRate |-> << "Pulse Rate is out of range!" >>,
     spo2 |-> << "Oxygen Saturation out of range!" >>]

\* both bounds taken as exclusive
is_within_limits_exclusive(value, limits) ==
    IF value.t = "num"
    THEN limits.min < value.n /\ value.n < limits.max
    ELSE FALSE

\* limits['min'] <= value <= limits['max']; the TypeError of a value that is
\* no number is caught and gives False
is_within_limits(value, limits) ==
    IF value.t = "num"
    THEN limits.min <= value.n /\ value.n <= limits.max
    ELSE FALSE

check_single_vital(vital_name, value) ==
    IF vital_name \notin DOMAIN VITAL_LIMITS
    THEN [is_ok |-> FALSE, message |-> << "Unknown vital: ", vital_name >>]
    ELSE IF is_within_limits(value, VITAL_LIMITS[vital_name])
    THEN [is_ok |-> TRUE, message |-> << >>]
    ELSE [is_ok |-> FALSE, message |-> VITAL_MESSAGES[vital_name]]

RECURSIVE check_vitals(_)
check_vitals(vitals) ==
    IF vitals = << >>
    THEN << >>
    ELSE IF check_single_vital(Head(vitals)[1], Head(vitals)[2].value).is_ok
    THEN check_vitals(Tail(vitals))
    ELSE << << Head(vitals)[1],
               check_single_vital(Head(vitals)[1], Head(vitals)[2].value).message >> >>
            \o check_vitals(Tail(vitals))

legacy_vitals_ok(vitals) ==
    [all_ok |-> Len(check_vitals(vitals)) = 0, failures |-> check_vitals(vitals)]

(***************************************************************************)
(* Inputs                                                                  *)
(***************************************************************************)
VitalTypes == {"temperature", "pulseRate", "spo2", "bloodPressure"}

Units == {"C", "c", "F", "f", "K", "", "bpm"}

LanguageCodes == {"en", "de", "fr"}

\* limits given to get_vital_trends: none, fewer than a history can hold, and
\* the default
Limits == {0, 1, 2, 10}

\* warning tolerances in thousandths of a percent, each a whole tenth of a
\* percent: the default, just under a half of the range, a half, more than a half
Tolerances == {DefaultWarningTolerance, 49 * Scale, 50 * Scale, 60 * Scale}

\* PatientProfile(age=...): no age, and ages on both sides of 18 and 65
Ages == {None, Some(0), Some(10), Some(17), Some(18), Some(30), Some(65), Some(66), Some(70)}

\* the monitors the tests set up: AdvancedMonitor(), create_monitor(age=70),
\* create_monitor(age=10)
MonitorAges == {None, Some(10), Some(70)}

ProfileTypeOf(age) ==
    IF age = None THEN "adult"
    ELSE IF age[1] > 65 THEN "elderly"
    ELSE IF age[1] < 18 THEN "pediatric"
    ELSE "adult"

TableEdges(ranges) ==
    UNION {(IF ranges[i].min = None THEN {} ELSE {ranges[i].min[1]})
             \cup (IF ranges[i].max = None THEN {} ELSE {ranges[i].max[1]}) :
           i \in DOMAIN ranges}

\* every band edge of a vital type: the computed ranges of every profile and
\* the bounds listed in its range table
Edges(vital_type) ==
    UNION {{calculate_warning_ranges(
                get_vital_limits(PatientProfile(a, ProfileTypeOf(a)), vital_type))[i] :
              i \in 1..4} : a \in Ages}
      \cup (CASE vital_type = "temperature" -> TableEdges(TEMP_RANGES)
              [] vital_type = "pulseRate" -> TableEdges(PULSE_RANGES)
              [] vital_type = "spo2" -> TableEdges(SPO2_RANGES)
              [] OTHER -> {})

\* values of the tests and of the spec's examples, with Celsius readings that
\* convert onto and next to band edges
Samples ==
    {0, 35000, 35850, 35855, 37000, 38900, 45000, 55000, 61000, 75000, 85000,
     96000, 97000, 98600, 105000, 120000, -1000}

Values(vital_type) ==
    {e + 5 * k : e \in Edges(vital_type), k \in -Spread..Spread} \cup Samples

Inputs ==
    UNION {{[vital_type |-> vt, value |-> value, unit |-> unit] :
              value \in {Num(v) : v \in Values(vt)} \cup {Str}, unit \in Units} :
           vt \in VitalTypes}

NoInput == [vital_type |-> "", value |-> Absent, unit |-> ""]

Entries ==
    {<< "temperature", Dict(Num(96000), Some("F")) >>,
     << "temperature", Dict(Num(105000), Some("F")) >>,
     << "temperature", Dict(Num(98600), Some("K")) >>,
     << "pulseRate", Dict(Num(75000), Some("bpm")) >>,
     << "pulseRate", Dict(Num(45000), Some("bpm")) >>,
     << "spo2", Dict(Num(97000), Some("%")) >>,
     << "spo2", Dict(Num(85000), Some("%")) >>,
     << "bloodPressure", Dict(Num(120000), Some("mmHg")) >>}

\* the dicts of n items: a dict has one item per key
RECURSIVE BatchesOfLen(_)
BatchesOfLen(n) ==
    IF n = 0
    THEN {<< >>}
    ELSE UNION {{Append(b, e) : e \in {x \in Entries : \A i \in DOMAIN b : b[i][1] # x[1]}} :
                b \in BatchesOfLen(n - 1)}

Batches == UNION {BatchesOfLen(n) : n \in 1..Cardinality(VitalTypes)}

\* further input dicts: readings in the warning bands, a temperature without the
\* unit key, values that are not numbers and dicts without the value key
MoreEntries ==
    {<< "temperature", Dict(Num(95100), Some("F")) >>,
     << "temperature", Dict(Num(105000), None) >>,
     << "temperature", Dict(Str, Some("F")) >>,
     << "temperature", Dict(Absent, Some("F")) >>,
     << "pulseRate", Dict(Num(60300), Some("bpm")) >>,
     << "pulseRate", Dict(Str, None) >>,
     << "spo2", Dict(Num(90100), Some("%")) >>,
     << "spo2", Dict(Absent, Some("%")) >>}

RECURSIVE DictsOfLen(_, _)
DictsOfLen(entries, n) ==
    IF n = 0
    THEN {<< >>}
    ELSE UNION {{Append(b, e) : e \in {x \in entries : \A i \in DOMAIN b : b[i][1] # x[1]}} :
                b \in DictsOfLen(entries, n - 1)}

\* a scalar given in place of a dict
Scalar(value) == [is_dict |-> FALSE, value |-> value, unit |-> None, source |-> None]

\* scalar values on, next to and between the limits and table bounds, a value
\* that is no number and a vital of unknown name
ScalarEntries ==
    {<< "temperature", Scalar(Num(v)) >> : v \in {94995, 95000, 96000, 98600, 102000, 103000}}
      \cup {<< "pulseRate", Scalar(Num(v)) >> : v \in {59000, 60000, 75000, 99000, 100000, 101000}}
      \cup {<< "pulseRate", Scalar(Str) >>}
      \cup {<< "spo2", Scalar(Num(v)) >> : v \in {89000, 90000, 97000, 98500, 100000}}
      \cup {<< "bloodPressure", Scalar(Num(120000)) >>}

\* the dicts of up to MaxBatch scalar items
ScalarInputs ==
    {[vitals |-> b] : b \in UNION {DictsOfLen(ScalarEntries, n) : n \in 1..MaxBatch}}

\* the dicts of up to MaxBatch items over all entries
BatchInputs ==
    {[vitals |-> b] : b \in UNION {DictsOfLen(Entries \cup MoreEntries, n) : n \in 1..MaxBatch}}

\* the threads that share a monitor: two in monitor_vitals, one in
\* get_vital_trends
Writers == {"w1", "w2"}

Readers == {"r"}

\* the vital types the threads submit and read
ThreadVitals == {"temperature", "pulseRate"}

\* limits the reading thread gives: the last reading, and the default
ThreadLimits == {1, 10}

\* the reading a monitor has recorded before the threads start
StoredReading == [value |-> Num(97000), unit |-> "", source |-> "manual"]

\* the reading a thread submits; no two threads submit the same
ReadingBy(t) ==
    [value |-> Num(IF t = "w1" THEN 98000 ELSE 99000), unit |-> "", source |-> "manual"]

(***************************************************************************)
(* State                                                                   *)
(***************************************************************************)
VARIABLES
    monitor,            \* the AdvancedMonitor: patient_profile, language, vital_history
    CURRENT_LANGUAGE,   \* the module global of monitor_enhanced.py
    input,              \* what the calls are applied to: the vital type, value and unit
                        \* of one reading, or the vitals of one batch
    call,               \* the last call made and its outcome
    threads,            \* the threads inside a call on a shared monitor: per thread
                        \* the call, the statement it is at and its locals
    heap                \* the list objects the shared monitor's vital_history
                        \* refers to, when threads share it

vars == << monitor, CURRENT_LANGUAGE, input, call, threads, heap >>

\* AdvancedMonitor.__init__
AdvancedMonitor(patient_profile) ==
    [patient_profile |-> patient_profile, language |-> "en",
     vital_history |-> [k \in {} |-> << >>]]

\* create_monitor(age, profile_type)
create_monitor(age, profile_type) == AdvancedMonitor(PatientProfile(age, profile_type))

Init ==
    /\ \E age \in MonitorAges : monitor = create_monitor(age, ProfileTypeOf(age))
    /\ CURRENT_LANGUAGE = "en"
    /\ input = NoInput
    /\ call = [op |-> "create_monitor"]
    /\ threads = << >>
    /\ heap = << >>

InitClassify ==
    /\ \E age \in Ages : monitor = create_monitor(age, ProfileTypeOf(age))
    /\ CURRENT_LANGUAGE = "en"
    /\ input \in Inputs
    /\ call = [op |-> "create_monitor"]
    /\ threads = << >>
    /\ heap = << >>

InitBatch ==
    /\ \E age \in MonitorAges : monitor = create_monitor(age, ProfileTypeOf(age))
    /\ CURRENT_LANGUAGE = "en"
    /\ input \in BatchInputs
    /\ call = [op |-> "create_monitor"]
    /\ threads = << >>
    /\ heap = << >>

InitLegacy ==
    /\ monitor = create_monitor(None, "adult")
    /\ CURRENT_LANGUAGE = "en"
    /\ input \in ScalarInputs
    /\ call = [op |-> "create_monitor"]
    /\ threads = << >>
    /\ heap = << >>

\* a monitor shared by two threads in monitor_vitals and one in
\* get_vital_trends.  vital_history maps a vital type to the list object it
\* holds, an index of heap; the monitor is new, or has recorded one temperature
InitThreads ==
    /\ \E stored \in {<< >>, << StoredReading >>} :
          /\ input = [stored |-> stored]
          /\ heap = IF stored = << >> THEN << >> ELSE << stored >>
          /\ monitor = [create_monitor(None, "adult") EXCEPT !.vital_history =
                           IF stored = << >> THEN @ ELSE [k \in {"temperature"} |-> 1]]
    /\ CURRENT_LANGUAGE = "en"
    /\ call = [op |-> "create_monitor"]
    /\ \E vt \in [Writers \cup Readers -> ThreadVitals], limit \in ThreadLimits :
          threads = [t \in Writers \cup Readers |->
                        IF t \in Writers
                        THEN [op |-> "monitor_vitals", pc |-> "check",
                              vital_type |-> vt[t], reading |-> ReadingBy(t),
                              limit |-> 0, ref |-> 0, result |-> << >>]
                        ELSE [op |-> "get_vital_trends", pc |-> "check",
                              vital_type |-> vt[t], reading |-> StoredReading,
                              limit |-> limit, ref |-> 0, result |-> << >>]]

\* the tuple vitals_ok_advanced makes of the report
AdvancedResult(results) ==
    [overall_ok |-> results.overall_status = "NORMAL",
     failures |-> results.critical_alerts,
     warnings |-> results.warnings]

\* vitals_ok_advanced: a monitor of its own, made by create_monitor(age=age)
vitals_ok_advanced(vitals, age) ==
    AdvancedResult(monitor_vitals(create_monitor(age, "adult"), vitals).results)

\* a key of a non-empty key set
AnyKey(keys) == CHOOSE k \in keys : TRUE

RECURSIVE SumLen(_, _)
SumLen(history, keys) ==
    IF keys = {}
    THEN 0
    ELSE Len(history[AnyKey(keys)]) + SumLen(history, keys \ {AnyKey(keys)})

\* the number of readings held over all histories
TotalHistory(history) == SumLen(history, DOMAIN history)

InputReading == VitalReading(input.value, input.unit, "manual")

(***************************************************************************)
(* Calls on the monitor                                                    *)
(***************************************************************************)
SetLanguage(language_code) ==
    /\ IF language_code \in DOMAIN AdvMessages
       THEN /\ monitor' = [monitor EXCEPT !.language = language_code]
            /\ call' = [op |-> "set_language", language_code |-> language_code,
                        outcome |-> Return(None)]
       ELSE /\ monitor' = monitor
            /\ call' = [op |-> "set_language", language_code |-> language_code,
                        outcome |-> Raise("ValueError")]
    /\ UNCHANGED << CURRENT_LANGUAGE, input, threads, heap >>

\* the state and the call record after monitor_vitals
AfterMonitorVitals(vitals, out) ==
    /\ monitor' = [monitor EXCEPT !.vital_history = out.history]
    /\ call' = [op |-> "monitor_vitals", vitals |-> vitals,
                outcome |-> Return(out.results)]

MonitorVitals(vitals) ==
    /\ TotalHistory(monitor.vital_history) + Len(vitals) <= MaxHistory
    /\ AfterMonitorVitals(vitals, monitor_vitals(monitor, vitals))
    /\ UNCHANGED << CURRENT_LANGUAGE, input, threads, heap >>

\* vitals_ok_advanced for the patient of the monitor
VitalsOkAdvanced ==
    /\ call' = [op |-> "vitals_ok_advanced", vitals |-> input.vitals,
                outcome |-> Return(vitals_ok_advanced(input.vitals,
                                                      monitor.patient_profile.age))]
    /\ UNCHANGED << monitor, CURRENT_LANGUAGE, input, threads, heap >>

GetVitalTrends(vital_type, limit) ==
    /\ call' = [op |-> "get_vital_trends", vital_type |-> vital_type, limit |-> limit,
                outcome |-> Return(get_vital_trends(monitor, vital_type, limit))]
    /\ UNCHANGED << monitor, CURRENT_LANGUAGE, input, threads, heap >>

GetVitalLimits ==
    /\ call' = [op |-> "get_vital_limits",
                outcome |-> Return(get_vital_limits(monitor.patient_profile,
                                                    input.vital_type))]
    /\ UNCHANGED << monitor, CURRENT_LANGUAGE, input, threads, heap >>

CalculateWarningRanges ==
    /\ call' = [op |-> "calculate_warning_ranges",
                outcome |-> Return(calculate_warning_ranges(
                               get_vital_limits(monitor.patient_profile,
                                                input.vital_type)))]
    /\ UNCHANGED << monitor, CURRENT_LANGUAGE, input, threads, heap >>

\* VitalLimits(min, max, tolerance) on the limits of the profile, then its
\* calculate_warning_ranges
ConfigureLimits(tolerance) ==
    LET profile == get_vital_limits(monitor.patient_profile, input.vital_type)
        limits  == VitalLimitsWith(profile.min_val, profile.max_val, tolerance)
    IN  /\ call' = [op |-> "VitalLimits", limits |-> limits,
                    outcome |-> Return(calculate_warning_ranges(limits))]
        /\ UNCHANGED << monitor, CURRENT_LANGUAGE, input, threads, heap >>

ConvertUnits ==
    /\ call' = [op |-> "convert_units",
                outcome |-> convert_units(InputReading, input.vital_type)]
    /\ UNCHANGED << monitor, CURRENT_LANGUAGE, input, threads, heap >>

AssessVital ==
    /\ call' = [op |-> "assess_vital",
                outcome |-> assess_vital(monitor, input.vital_type, InputReading)]
    /\ UNCHANGED << monitor, CURRENT_LANGUAGE, input, threads, heap >>

\* the reading stored in the history as well
AssessItem_storing(i) ==
    /\ i \in DOMAIN input.vitals
    /\ input.vitals[i][2].value # Absent
    /\ monitor' = [monitor EXCEPT !.vital_history =
                      AppendHistory(@, input.vitals[i][1], ReadingOf(input.vitals[i][2]))]
    /\ call' = [op |-> "assess_vital", vital_type |-> input.vitals[i][1],
                reading |-> ReadingOf(input.vitals[i][2]),
                outcome |-> assess_vital(monitor, input.vitals[i][1],
                                         ReadingOf(input.vitals[i][2]))]
    /\ UNCHANGED << CURRENT_LANGUAGE, input, threads, heap >>

\* assess_vital on the reading made of item i of the batch
AssessItem(i) ==
    /\ i \in DOMAIN input.vitals
    /\ input.vitals[i][2].value # Absent
    /\ call' = [op |-> "assess_vital", vital_type |-> input.vitals[i][1],
                reading |-> ReadingOf(input.vitals[i][2]),
                outcome |-> assess_vital(monitor, input.vitals[i][1],
                                         ReadingOf(input.vitals[i][2]))]
    /\ UNCHANGED << monitor, CURRENT_LANGUAGE, input, threads, heap >>

(***************************************************************************)
(* Calls on monitor_enhanced                                               *)
(***************************************************************************)
TranslateToCommonUnits ==
    /\ call' = [op |-> "translate_to_common_units",
                outcome |-> translate_to_common_units(input.value, input.unit,
                                                      input.vital_type)]
    /\ UNCHANGED << monitor, CURRENT_LANGUAGE, input, threads, heap >>

\* the caller's choice of table for a vital name
RangesOf(vital_name) ==
    CASE vital_name = "temperature" -> TEMP_RANGES
      [] vital_name = "pulseRate" -> PULSE_RANGES
      [] vital_name = "spo2" -> SPO2_RANGES

MapValueToCondition ==
    /\ input.vital_type \in {"temperature", "pulseRate", "spo2"}
    /\ call' = [op |-> "map_value_to_condition",
                outcome |-> map_value_to_condition(input.value,
                                                   RangesOf(input.vital_type))]
    /\ UNCHANGED << monitor, CURRENT_LANGUAGE, input, threads, heap >>

ProcessSingleVital ==
    /\ call' = [op |-> "process_single_vital",
                outcome |-> process_single_vital(CURRENT_LANGUAGE, input.vital_type,
                                                 Dict(input.value, Some(input.unit)))]
    /\ UNCHANGED << monitor, CURRENT_LANGUAGE, input, threads, heap >>

\* get_condition_message on the condition map_value_to_condition has returned
GetConditionMessage(language) ==
    /\ call.op = "map_value_to_condition"
    /\ call.outcome.raised = ""
    /\ call' = [op |-> "get_condition_message", condition |-> call.outcome.value,
                language |-> language,
                outcome |-> Return(get_condition_message(CURRENT_LANGUAGE,
                                                         call.outcome.value, language))]
    /\ UNCHANGED << monitor, CURRENT_LANGUAGE, input, threads, heap >>

\* set_language of monitor_enhanced taking every code
SetLanguageEnhanced_unchecked(language_code) ==
    /\ CURRENT_LANGUAGE' = language_code
    /\ call' = [op |-> "enhanced.set_language", language_code |-> language_code,
                outcome |-> Return(None)]
    /\ UNCHANGED << monitor, input, threads, heap >>

\* set_language of monitor_enhanced
SetLanguageEnhanced(language_code) ==
    /\ IF language_code \in DOMAIN MESSAGES
       THEN /\ CURRENT_LANGUAGE' = language_code
            /\ call' = [op |-> "enhanced.set_language", language_code |-> language_code,
                        outcome |-> Return(None)]
       ELSE /\ CURRENT_LANGUAGE' = CURRENT_LANGUAGE
            /\ call' = [op |-> "enhanced.set_language", language_code |-> language_code,
                        outcome |-> Raise("ValueError")]
    /\ UNCHANGED << monitor, input, threads, heap >>

VitalsOkEnhanced ==
    /\ call' = [op |-> "vitals_ok_enhanced", vitals |-> input.vitals,
                outcome |-> vitals_ok_enhanced(CURRENT_LANGUAGE, input.vitals)]
    /\ UNCHANGED << monitor, CURRENT_LANGUAGE, input, threads, heap >>

\* vitals_ok of monitor_enhanced
VitalsOk ==
    /\ call' = [op |-> "enhanced.vitals_ok", vitals |-> input.vitals,
                outcome |-> vitals_ok(CURRENT_LANGUAGE, input.vitals)]
    /\ UNCHANGED << monitor, CURRENT_LANGUAGE, input, threads, heap >>

\* vitals_ok of monitor
LegacyVitalsOk ==
    /\ call' = [op |-> "monitor.vitals_ok", vitals |-> input.vitals,
                outcome |-> Return(legacy_vitals_ok(input.vitals))]
    /\ UNCHANGED << monitor, CURRENT_LANGUAGE, input, threads, heap >>

(***************************************************************************)
(* Threads on a shared monitor.  The code takes no lock; a thread can be   *)
(* switched between any two statements, and between the evaluation of      *)
(* self.vital_history[vital_type] and the call made on the list it gives.  *)
(* dict and list operations themselves are atomic.                         *)
(***************************************************************************)
\* monitor_vitals l.247: if vital_type not in self.vital_history
HistoryCheck(t) ==
    /\ t \in Writers
    /\ threads[t].pc = "check"
    /\ threads' = [threads EXCEPT ![t].pc =
                      IF threads[t].vital_type \notin DOMAIN monitor.vital_history
                      THEN "create" ELSE "lookup"]
    /\ UNCHANGED << monitor, CURRENT_LANGUAGE, input, call, heap >>

\* monitor_vitals l.248: self.vital_history[vital_type] = []
HistoryCreate(t) ==
    /\ t \in Writers
    /\ threads[t].pc = "create"
    /\ heap' = Append(heap, << >>)
    /\ monitor' = [monitor EXCEPT !.vital_history =
                      [k \in DOMAIN @ \cup {threads[t].vital_type} |->
                          IF k = threads[t].vital_type THEN Len(heap) + 1 ELSE @[k]]]
    /\ threads' = [threads EXCEPT ![t].pc = "lookup"]
    /\ UNCHANGED << CURRENT_LANGUAGE, input, call >>

\* monitor_vitals l.249: the list self.vital_history[vital_type] evaluates to
HistoryLookup(t) ==
    /\ t \in Writers
    /\ threads[t].pc = "lookup"
    /\ threads' = [threads EXCEPT ![t].ref = monitor.vital_history[threads[t].vital_type],
                                  ![t].pc = "append"]
    /\ UNCHANGED << monitor, CURRENT_LANGUAGE, input, call, heap >>

\* monitor_vitals l.249: .append(reading) on that list; the rest of the call
\* does not touch the histories of these vital types again
HistoryAppend(t) ==
    /\ t \in Writers
    /\ threads[t].pc = "append"
    /\ heap' = [heap EXCEPT ![threads[t].ref] = Append(@, threads[t].reading)]
    /\ threads' = [threads EXCEPT ![t].pc = "done"]
    /\ UNCHANGED << monitor, CURRENT_LANGUAGE, input, call >>

\* get_vital_trends l.295-296: if vital_type not in self.vital_history: return []
TrendsCheck(t) ==
    /\ t \in Readers
    /\ threads[t].pc = "check"
    /\ threads' = [threads EXCEPT ![t].pc =
                      IF threads[t].vital_type \notin DOMAIN monitor.vital_history
                      THEN "done" ELSE "lookup"]
    /\ UNCHANGED << monitor, CURRENT_LANGUAGE, input, call, heap >>

\* get_vital_trends l.298: the list self.vital_history[vital_type] evaluates to
TrendsLookup(t) ==
    /\ t \in Readers
    /\ threads[t].pc = "lookup"
    /\ threads' = [threads EXCEPT ![t].ref = monitor.vital_history[threads[t].vital_type],
                                  ![t].pc = "slice"]
    /\ UNCHANGED << monitor, CURRENT_LANGUAGE, input, call, heap >>

\* get_vital_trends l.298-307: [-limit:] of that list, a copy, and the dicts
\* made of the copy
TrendsSlice(t) ==
    /\ t \in Readers
    /\ threads[t].pc = "slice"
    /\ threads' = [threads EXCEPT
                      ![t].result = get_vital_trends(
                                        [vital_history |->
                                            [k \in {threads[t].vital_type} |->
                                                heap[threads[t].ref]]],
                                        threads[t].vital_type, threads[t].limit),
                      ![t].pc = "done"]
    /\ UNCHANGED << monitor, CURRENT_LANGUAGE, input, call, heap >>

(***************************************************************************)
(* Specifications                                                          *)
(***************************************************************************)
\* the monitor in use: batches are assessed and recorded, the language is switched
Next ==
    \/ \E vitals \in Batches : MonitorVitals(vitals)
    \/ \E language_code \in LanguageCodes : SetLanguage(language_code)
    \/ \E vital_type \in VitalTypes, limit \in Limits : GetVitalTrends(vital_type, limit)

Spec == Init /\ [][Next]_vars

\* the classification pipeline, stage by stage, applied to one input
NextClassify ==
    \/ GetVitalLimits
    \/ CalculateWarningRanges
    \/ \E tolerance \in Tolerances : ConfigureLimits(tolerance)
    \/ ConvertUnits
    \/ AssessVital
    \/ TranslateToCommonUnits
    \/ MapValueToCondition
    \/ ProcessSingleVital
    \/ \E language \in {None} \cup {Some(code) : code \in LanguageCodes} :
          GetConditionMessage(language)

SpecClassify == InitClassify /\ [][NextClassify]_vars

\* one batch given to the batch calls of both modules, under either language
NextBatch ==
    \/ MonitorVitals(input.vitals)
    \/ VitalsOkAdvanced
    \/ VitalsOkEnhanced
    \/ \E i \in 1..MaxBatch : AssessItem(i)
    \/ \E language_code \in LanguageCodes : SetLanguage(language_code)
    \/ \E language_code \in LanguageCodes : SetLanguageEnhanced(language_code)

SpecBatch == InitBatch /\ [][NextBatch]_vars

\* one batch of scalars given to the three calls that take scalars
NextLegacy ==
    \/ LegacyVitalsOk
    \/ VitalsOk
    \/ VitalsOkEnhanced
    \/ \E language_code \in LanguageCodes : SetLanguageEnhanced(language_code)

SpecLegacy == InitLegacy /\ [][NextLegacy]_vars

\* two monitor_vitals calls and one get_vital_trends call on one monitor, their
\* statements interleaved in every order
NextThreads ==
    \/ \E t \in Writers : HistoryCheck(t)
    \/ \E t \in Writers : HistoryCreate(t)
    \/ \E t \in Writers : HistoryLookup(t)
    \/ \E t \in Writers : HistoryAppend(t)
    \/ \E t \in Readers : TrendsCheck(t)
    \/ \E t \in Readers : TrendsLookup(t)
    \/ \E t \in Readers : TrendsSlice(t)

SpecThreads == InitThreads /\ [][NextThreads]_vars

(***************************************************************************)
(* Vocabulary of the properties                                            *)
(***************************************************************************)
KnownVitals == {"temperature", "pulseRate", "spo2"}

TierNames ==
    [temperature |-> << "HYPO_THERMIA", "NEAR_HYPO", "NORMAL", "NEAR_HYPER", "HYPER_THERMIA" >>,
     pulseRate |-> << "BRADY_CARDIA", "NEAR_BRADY", "NORMAL", "NEAR_TACHY", "TACHY_CARDIA" >>,
     spo2 |-> << "LOW_OXYGEN", "NEAR_LOW_OXYGEN", "NORMAL", "NEAR_HIGH_OXYGEN", "HIGH_OXYGEN" >>]

\* band edges b0..b3 of a limit range as section 4.3 derives them
Bands(limits) ==
    LET tol == ((limits.max_val - limits.min_val) * limits.warning_tolerance)
                  \div (100 * Scale)
    IN  << limits.min_val, limits.min_val + tol, limits.max_val - tol, limits.max_val >>

\* tier 1..5 with every band half-open: b0 <= v < b1 is near-low
HalfOpenTier(v, b) ==
    IF v < b[1] THEN 1
    ELSE IF v < b[2] THEN 2
    ELSE IF v < b[3] THEN 3
    ELSE IF v < b[4] THEN 4
    ELSE 5

\* tier 1..5 with the near-low band closed at b1: b0 <= v <= b1 is near-low
ClosedLowTier(v, b) ==
    IF v < b[1] THEN 1
    ELSE IF v <= b[2] THEN 2
    ELSE IF v < b[3] THEN 3
    ELSE IF v < b[4] THEN 4
    ELSE 5

\* the input is already in the canonical unit: its value is the canonical value
Canonical ==
    /\ input.value.t = "num"
    /\ input.vital_type = "temperature" => input.unit \in {"F", "f"}

ProfileLimits == get_vital_limits(monitor.patient_profile, input.vital_type)

DefaultProfile == PatientProfile(None, "adult")

Assessed == call.op = "assess_vital" /\ call.outcome.raised = ""

Mapped == call.op = "map_value_to_condition" /\ call.outcome.raised = ""

C2_TablesPartition ==
    (Mapped /\ input.value.t = "num") =>
        LET ranges == RangesOf(input.vital_type)
            v == input.value.n
        IN  /\ Cardinality({i \in DOMAIN ranges : InRange(v, ranges[i])}) = 1
            /\ v < ranges[2].min[1] =>
                  call.outcome.value = TierNames[input.vital_type][1]

(***************************************************************************)
(* C3                                                                      *)
(***************************************************************************)
\* C3: in both classifiers and for every vital type and profile, a value equal
\* to the lower limit is classified near-low and a value equal to the upper
\* limit is classified above-critical
C3_BoundaryLaw ==
    /\ (Assessed /\ Canonical /\ input.vital_type \in KnownVitals) =>
          /\ input.value.n = ProfileLimits.min_val =>
                call.outcome.value.condition = TierNames[input.vital_type][2]
          /\ input.value.n = ProfileLimits.max_val =>
                call.outcome.value.condition = TierNames[input.vital_type][5]
    /\ (Mapped /\ input.value.t = "num") =>
          LET base == get_vital_limits(DefaultProfile, input.vital_type)
          IN  /\ input.value.n = base.min_val =>
                    call.outcome.value = TierNames[input.vital_type][2]
              /\ input.value.n = base.max_val =>
                    call.outcome.value = TierNames[input.vital_type][5]

\* the table classifier has been given a temperature exactly at the lower limit
C3_Witness ==
    /\ Mapped
    /\ input.vital_type = "temperature"
    /\ input.value = Num(95 * Scale)
    /\ call.outcome.value = "NEAR_HYPO"

(***************************************************************************)
(* C4                                                                      *)
(***************************************************************************)
PulseAdult ==
    /\ input.vital_type = "pulseRate"
    /\ input.value.t = "num"
    /\ ProfileLimits = VitalLimits(60 * Scale, 100 * Scale)

Monitored == call.op = "monitor_vitals" /\ call.outcome.raised = ""

\* the items of a batch, whatever their order
Items(vitals) == {vitals[i] : i \in DOMAIN vitals}

MixedBatch ==
    {<< "temperature", Dict(Num(96000), Some("F")) >>,
     << "pulseRate", Dict(Num(75000), Some("bpm")) >>,
     << "spo2", Dict(Num(97000), Some("%")) >>}

\* C5: for the default profile, monitor_vitals on {temperature 96.0 F,
\* pulseRate 75 bpm, spo2 97 %} reports temperature as NEAR_HYPO with a WARNING
\* message, overall_status WARNING, one warning, no critical alert, and the
\* 'Monitor closely' recommendation first
C5_MixedBatchWarns ==
    (Monitored /\ monitor.patient_profile.age = None /\ monitor.language = "en"
       /\ Items(call.vitals) = MixedBatch) =>
        LET results == call.outcome.value
        IN  /\ results.assessments["temperature"].condition = "NEAR_HYPO"
            /\ Contains(results.assessments["temperature"].message, "WARNING")
            /\ results.overall_status = "WARNING"
            /\ Len(results.warnings) = 1
            /\ results.critical_alerts = << >>
            /\ results.recommendations # << >>
            /\ results.recommendations[1] =
                  "Monitor closely and consider medical consultation"

(***************************************************************************)
(* C6                                                                      *)
(***************************************************************************)
\* C6: get_vital_limits returns temperature [95,102] and spo2 [90,100] for
\* every profile; pulseRate [50,90] when the age is set and above 65, [80,120]
\* when the age is set and below 18 (age 0 included), [60,100] otherwise; the
\* warning tolerance is 1.5 in every case
C6_LimitsByAge ==
    (call.op = "get_vital_limits" /\ input.vital_type \in KnownVitals) =>
        LET age == monitor.patient_profile.age
            limits == call.outcome.value
        IN  /\ call.outcome.raised = ""
            /\ limits.warning_tolerance = 1500
            /\ input.vital_type = "temperature" =>
                  (limits.min_val = 95000 /\ limits.max_val = 102000)
            /\ input.vital_type = "spo2" =>
                  (limits.min_val = 90000 /\ limits.max_val = 100000)
            /\ input.vital_type = "pulseRate" =>
                  IF age # None /\ age[1] > 65
                  THEN limits.min_val = 50000 /\ limits.max_val = 90000
                  ELSE IF age # None /\ age[1] < 18
                  THEN limits.min_val = 80000 /\ limits.max_val = 120000
                  ELSE limits.min_val = 60000 /\ limits.max_val = 100000

(***************************************************************************)
(* C7                                                                      *)
(***************************************************************************)
\* C7: a pulseRate of 55 bpm is assessed BRADY_CARDIA for an adult profile
\* (limits [60,100]) and NEAR_BRADY with a WARNING message for an elderly
\* profile of age 70 (limits [50,90])
C7_Pulse55ByAge ==
    (call.op = "assess_vital" /\ input.vital_type = "pulseRate"
       /\ input.value = Num(55000)) =>
        LET age == monitor.patient_profile.age
        IN  /\ call.outcome.raised = ""
            /\ (age = None \/ age = Some(30)) =>
                  call.outcome.value.condition = "BRADY_CARDIA"
            /\ age = Some(70) =>
                  /\ call.outcome.value.condition = "NEAR_BRADY"
                  /\ Contains(call.outcome.value.message, "WARNING")

(***************************************************************************)
(* C8                                                                      *)
(***************************************************************************)
\* C8: a vital type outside {temperature, pulseRate, spo2} is rejected:
\* get_vital_limits returns no range for it, assess_vital returns no condition
\* for it, and monitor_vitals records it as an ERROR entry
C8_UnknownVitalRejected ==
    /\ (call.op \in {"get_vital_limits", "assess_vital"}
          /\ input.vital_type \notin KnownVitals) => call.outcome.raised # ""
    /\ Monitored =>
          \A i \in DOMAIN call.vitals :
              call.vitals[i][1] \notin KnownVitals =>
                 call.outcome.value.assessments[call.vitals[i][1]].condition = "ERROR"

(***************************************************************************)
(* C9                                                                      *)
(***************************************************************************)
\* C9: a temperature whose unit is neither C nor F is rejected by both unit
\* normalizers, convert_units and translate_to_common_units, and never passed
\* through
C9_InvalidUnitRejected ==
    (call.op \in {"convert_units", "translate_to_common_units"}
       /\ input.vital_type = "temperature"
       /\ Upper(input.unit) \notin {"C", "F"}) => call.outcome.raised # ""

(***************************************************************************)
(* C10                                                                     *)
(***************************************************************************)
\* c degrees Celsius written in Fahrenheit
Fahrenheit(c) == (c * 9) \div 5 + 32 * Scale

\* C10: a temperature of c in unit C or c gets the condition and message of
\* c*9/5+32 in unit F, from assess_vital and from process_single_vital alike
\* (37 C is NORMAL); a pulseRate or spo2 reading gets the same outcome for every
\* unit string
C10_CanonicalValueOnly ==
    /\ (call.op = "assess_vital" /\ input.value.t = "num") =>
          /\ (input.vital_type = "temperature" /\ input.unit \in {"C", "c"}) =>
                /\ call.outcome =
                      assess_vital(monitor, "temperature",
                          VitalReading(Num(Fahrenheit(input.value.n)), "F", "manual"))
                /\ input.value.n = 37000 => call.outcome.value.condition = "NORMAL"
          /\ input.vital_type \in {"pulseRate", "spo2"} =>
                call.outcome =
                   assess_vital(monitor, input.vital_type,
                       VitalReading(input.value, "", "manual"))
    /\ (call.op = "process_single_vital" /\ input.value.t = "num") =>
          /\ (input.vital_type = "temperature" /\ input.unit \in {"C", "c"}) =>
                /\ call.outcome =
                      process_single_vital(CURRENT_LANGUAGE, "temperature",
                          Dict(Num(Fahrenheit(input.value.n)), Some("F")))
                /\ input.value.n = 37000 => call.outcome.value.condition = "NORMAL"
          /\ input.vital_type \in {"pulseRate", "spo2"} =>
                call.outcome =
                   process_single_vital(CURRENT_LANGUAGE, input.vital_type,
                       Dict(input.value, Some("")))

\* 37 degrees in lower-case unit c has been assessed and found NORMAL
C10_Witness ==
    /\ Assessed
    /\ input.vital_type = "temperature"
    /\ input.unit = "c"
    /\ input.value = Num(37000)
    /\ call.outcome.value.condition = "NORMAL"

(***************************************************************************)
(* C11                                                                     *)
(***************************************************************************)
\* a dict for the temperature with a number as value and no unit key
Unitless(item) ==
    /\ item[1] = "temperature"
    /\ item[2].is_dict
    /\ item[2].unit = None
    /\ item[2].value.t = "num"

\* the batch with unit F written into every temperature dict that has no unit
InFahrenheit(vitals) ==
    [i \in DOMAIN vitals |->
        IF Unitless(vitals[i])
        THEN << vitals[i][1], [vitals[i][2] EXCEPT !.unit = Some("F")] >>
        ELSE vitals[i]]

\* C11: a temperature dict without the unit key is assessed by monitor_vitals
\* as a Fahrenheit value: its entry is no ERROR entry and has the condition and
\* message of the same value in unit F; vitals_ok_advanced returns for a batch
\* with such a dict what it returns for the batch with unit F written in
C11_UnitlessIsFahrenheit ==
    /\ Monitored =>
          \A i \in DOMAIN call.vitals :
              Unitless(call.vitals[i]) =>
                 LET entry == call.outcome.value.assessments["temperature"]
                     inF == assess_vital(monitor, "temperature",
                                VitalReading(call.vitals[i][2].value, "F", "manual"))
                 IN  /\ entry.condition # "ERROR"
                     /\ entry.condition = inF.value.condition
                     /\ entry.message = inF.value.message
    /\ call.op = "vitals_ok_advanced" =>
          call.outcome.value =
             vitals_ok_advanced(InFahrenheit(call.vitals), monitor.patient_profile.age)

(***************************************************************************)
(* C12                                                                     *)
(***************************************************************************)
\* C12: get_condition_message called with a language code outside {en, de}
\* fails with an error and returns no text, English or other
C12_UnsupportedLanguageFails ==
    (call.op = "get_condition_message"
       /\ call.language # None
       /\ call.language[1] \notin {"en", "de"}) => call.outcome.raised # ""

(***************************************************************************)
(* C13                                                                     *)
(***************************************************************************)
\* C13: set_language with a code outside {en, de} raises ValueError and leaves
\* the current language as it was, for AdvancedMonitor.set_language
\* (self.language) and for set_language of monitor_enhanced (CURRENT_LANGUAGE);
\* the current language of either is always a key of its message table
C13_SetLanguageRejects ==
    /\ [](/\ monitor.language \in DOMAIN AdvMessages
          /\ CURRENT_LANGUAGE \in DOMAIN MESSAGES)
    /\ [][(/\ call'.op \in {"set_language", "enhanced.set_language"}
           /\ call'.language_code \notin {"en", "de"}) =>
              /\ call'.outcome.raised = "ValueError"
              /\ monitor'.language = monitor.language
              /\ CURRENT_LANGUAGE' = CURRENT_LANGUAGE]_vars

\* set_language('fr') of monitor_enhanced has raised while the language was de
C13_Witness ==
    /\ call.op = "enhanced.set_language"
    /\ call.language_code = "fr"
    /\ call.outcome.raised = "ValueError"
    /\ CURRENT_LANGUAGE = "de"
    /\ monitor.language = "de"

(***************************************************************************)
(* C14                                                                     *)
(***************************************************************************)
NonNormalConditions == CRITICAL_CONDITIONS \cup WARNING_CONDITIONS

\* a message table has, for each of en and de, the empty message for NORMAL and
\* a non-empty message for each of the twelve other conditions, the en and de
\* messages of a condition being different
WellFormedTable(table) ==
    /\ DOMAIN table = {"en", "de"}
    /\ \A lang \in DOMAIN table :
          /\ DOMAIN table[lang] = NonNormalConditions \cup {"NORMAL"}
          /\ table[lang]["NORMAL"] = << >>
          /\ \A condition \in NonNormalConditions : table[lang][condition] # << >>
    /\ \A condition \in NonNormalConditions :
          table["en"][condition] # table["de"][condition]

\* C14: in en and de and in both message tables, NORMAL resolves to the empty
\* message and each of the twelve other conditions to one non-empty message,
\* different in en and de: the tables are so, get_condition_message returns
\* for a supported language the entry of that language's table, and the message
\* assess_vital returns is empty exactly when the condition is NORMAL
C14_MessageTables ==
    /\ WellFormedTable(AdvMessages)
    /\ WellFormedTable(MESSAGES)
    /\ (call.op = "get_condition_message" /\ call.language \in {Some("en"), Some("de")}) =>
          /\ call.outcome.raised = ""
          /\ call.outcome.value = MESSAGES[call.language[1]][call.condition]
          /\ call.outcome.value = << >> <=> call.condition = "NORMAL"
    /\ Assessed =>
          /\ call.outcome.value.message =
                AdvMessages[monitor.language][call.outcome.value.condition]
          /\ call.outcome.value.message = << >> <=>
                call.outcome.value.condition = "NORMAL"

\* the German message of a warning condition has been resolved
C14_Witness ==
    /\ call.op = "get_condition_message"
    /\ call.language = Some("de")
    /\ call.condition = "NEAR_HYPER"
    /\ call.outcome.value = << "Warnung", ": Annaeherung an Ueberhitzung" >>

(***************************************************************************)
(* C15                                                                     *)
(***************************************************************************)
\* the vital names of a list of (name, message) pairs
Names(pairs) == {pairs[i][1] : i \in DOMAIN pairs}

\* C15: under en and under de, vitals_ok_enhanced places every vital whose
\* condition is in CRITICAL_CONDITIONS in the critical-failures list and not in
\* the warnings list, and every vital whose condition is in WARNING_CONDITIONS
\* in the warnings list; three critical vitals give three critical failures
C15_EnhancedBuckets ==
    (call.op = "vitals_ok_enhanced" /\ call.outcome.raised = "") =>
        LET result == call.outcome.value
            conditionOf(i) ==
                process_single_vital(CURRENT_LANGUAGE, call.vitals[i][1],
                                     call.vitals[i][2]).value.condition
        IN  /\ \A i \in DOMAIN call.vitals :
                  /\ conditionOf(i) \in CRITICAL_CONDITIONS =>
                        /\ call.vitals[i][1] \in Names(result.failed)
                        /\ call.vitals[i][1] \notin Names(result.warnings)
                  /\ conditionOf(i) \in WARNING_CONDITIONS =>
                        call.vitals[i][1] \in Names(result.warnings)
            /\ (/\ Len(call.vitals) = 3
                /\ \A i \in DOMAIN call.vitals : conditionOf(i) \in CRITICAL_CONDITIONS) =>
                  Len(result.failed) = 3

(***************************************************************************)
(* C16                                                                     *)
(***************************************************************************)
\* the (vital_type, message) pairs of the items of a batch whose assessed
\* condition is in the tier, in the order of the batch
AlertsOf(vitals, assessments, tier) ==
    LET inTier(item) == assessments[item[1]].condition \in tier
        selected == SelectSeq(vitals, inTier)
    IN  [i \in 1..Len(selected) |->
            << selected[i][1], assessments[selected[i][1]].message >>]

\* C16: under either language, critical_alerts of the report of monitor_vitals
\* holds one (vital_type, message) pair for each vital of the batch assessed in
\* a critical tier and warnings one pair for each vital assessed in a warning
\* tier, both in the order of the batch; no vital is in both lists; three
\* critical vitals give three critical alerts
C16_AlertsByTier ==
    Monitored =>
        LET results == call.outcome.value
        IN  /\ results.critical_alerts =
                  AlertsOf(call.vitals, results.assessments, CRITICAL_CONDITIONS)
            /\ results.warnings =
                  AlertsOf(call.vitals, results.assessments, WARNING_CONDITIONS)
            /\ Names(results.critical_alerts) \cap Names(results.warnings) = {}
            /\ (/\ Len(call.vitals) = 3
                /\ \A i \in DOMAIN call.vitals :
                      results.assessments[call.vitals[i][1]].condition
                         \in CRITICAL_CONDITIONS) =>
                  Len(results.critical_alerts) = 3

\* a German report with three critical alerts has been made
C16_Witness ==
    /\ Monitored
    /\ monitor.language = "de"
    /\ Len(call.outcome.value.critical_alerts) = 3
    /\ Contains(call.outcome.value.critical_alerts[1][2], "KRITISCH")

(***************************************************************************)
(* C17                                                                     *)
(***************************************************************************)
\* the items of a batch whose entry in the assessments is no ERROR entry
Succeeded(vitals, assessments) ==
    LET ok(item) == assessments[item[1]].condition # "ERROR"
    IN  SelectSeq(vitals, ok)

\* how many times a text is in the recommendations
Count(recommendations, text) ==
    Cardinality({i \in DOMAIN recommendations : recommendations[i] = text})

\* C17: overall_status is CRITICAL iff critical_alerts is not empty, else
\* WARNING iff warnings is not empty, else NORMAL; it is the status of the batch
\* without the vitals that got an ERROR entry; the recommendations hold
\* 'Immediate medical attention required' once iff the status is CRITICAL and
\* 'Monitor closely and consider medical consultation' once iff it is WARNING,
\* in the first place, before the trend note
C17_StatusAndRecommendations ==
    Monitored =>
        LET results == call.outcome.value
            status == IF results.critical_alerts # << >> THEN "CRITICAL"
                      ELSE IF results.warnings # << >> THEN "WARNING"
                      ELSE "NORMAL"
            immediate == "Immediate medical attention required"
            closely == "Monitor closely and consider medical consultation"
            advice == IF status = "CRITICAL" THEN << immediate >>
                      ELSE IF status = "WARNING" THEN << closely >>
                      ELSE << >>
        IN  /\ results.overall_status = status
            /\ results.overall_status =
                  monitor_vitals(monitor,
                      Succeeded(call.vitals, results.assessments)).results.overall_status
            /\ Count(results.recommendations, immediate) =
                  (IF status = "CRITICAL" THEN 1 ELSE 0)
            /\ Count(results.recommendations, closely) =
                  (IF status = "WARNING" THEN 1 ELSE 0)
            /\ results.recommendations \in
                  {advice, advice \o << "Trending data available for analysis" >>}

\* a report with an ERROR entry, status CRITICAL and the trend note in second place
C17_Witness ==
    /\ Monitored
    /\ \E i \in DOMAIN call.vitals :
          call.outcome.value.assessments[call.vitals[i][1]].condition = "ERROR"
    /\ call.outcome.value.overall_status = "CRITICAL"
    /\ call.outcome.value.recommendations =
          << "Immediate medical attention required",
             "Trending data available for analysis" >>

(***************************************************************************)
(* C18                                                                     *)
(***************************************************************************)
\* C18: the recommendations of monitor_vitals hold 'Trending data available
\* for analysis' exactly when the history of a vital submitted in the call, of
\* whatever type, has more than one entry
C18_TrendNoteForEveryVital ==
    Monitored =>
        (Count(call.outcome.value.recommendations,
               "Trending data available for analysis") > 0
           <=> \E i \in DOMAIN call.vitals :
                  Len(HistoryOf(monitor.vital_history, call.vitals[i][1])) > 1)

(***************************************************************************)
(* C19                                                                     *)
(***************************************************************************)
\* the vital cannot be processed: its value is missing or no number, or it is a
\* temperature given in a unit that is neither C nor F
Malformed(item) ==
    \/ item[2].value.t # "num"
    \/ /\ item[1] = "temperature"
       /\ item[2].unit # None
       /\ Upper(item[2].unit[1]) \notin {"C", "F"}

\* a monitor for the same patient and language that has seen no reading
Fresh(self) == [AdvancedMonitor(self.patient_profile) EXCEPT !.language = self.language]

\* the entry monitor_vitals makes for the item when it is submitted alone
Alone(self, item) ==
    monitor_vitals(Fresh(self), << item >>).results.assessments[item[1]]

\* C19: the assessments of monitor_vitals have exactly one entry per vital type
\* of the batch; a vital with a bad unit, a value that is no number or no value
\* gets an entry with condition ERROR; every vital gets the entry it gets when
\* submitted alone, wherever a failing vital stands in the batch
C19_ErrorIsolation ==
    Monitored =>
        LET assessments == call.outcome.value.assessments
        IN  /\ DOMAIN assessments = {call.vitals[i][1] : i \in DOMAIN call.vitals}
            /\ \A i \in DOMAIN call.vitals :
                  /\ Malformed(call.vitals[i]) =>
                        assessments[call.vitals[i][1]].condition = "ERROR"
                  /\ assessments[call.vitals[i][1]] = Alone(monitor, call.vitals[i])

\* a batch of three whose second vital failed and whose first and third were
\* assessed in full
C19_Witness ==
    /\ Monitored
    /\ Len(call.vitals) = 3
    /\ call.vitals[2][1] = "pulseRate"
    /\ call.vitals[2][2].value = Str
    /\ call.outcome.value.assessments["pulseRate"].condition = "ERROR"
    /\ call.outcome.value.assessments[call.vitals[1][1]].condition = "HYPER_THERMIA"
    /\ call.outcome.value.assessments[call.vitals[3][1]].condition = "LOW_OXYGEN"

(***************************************************************************)
(* C20                                                                     *)
(***************************************************************************)
\* s is the beginning of t
IsPrefix(s, t) == Len(s) <= Len(t) /\ \A i \in DOMAIN s : s[i] = t[i]

\* C20: no step removes, reorders or alters an entry of a history: every
\* history is the beginning of what it is after the step; a history changes
\* only in a monitor_vitals call that submits its vital type; and a call
\* appends every reading it assesses successfully, whatever the condition, as
\* the one new entry at the end of the history of its type
C20_HistoryAppendOnly ==
    [][/\ \A vital_type \in DOMAIN monitor.vital_history :
             /\ vital_type \in DOMAIN monitor'.vital_history
             /\ IsPrefix(monitor.vital_history[vital_type],
                         monitor'.vital_history[vital_type])
       /\ \A vital_type \in DOMAIN monitor'.vital_history :
             HistoryOf(monitor.vital_history, vital_type) #
                monitor'.vital_history[vital_type] =>
                   /\ call'.op = "monitor_vitals"
                   /\ \E i \in DOMAIN call'.vitals : call'.vitals[i][1] = vital_type
       /\ call'.op = "monitor_vitals" =>
             \A i \in DOMAIN call'.vitals :
                 call'.outcome.value.assessments[call'.vitals[i][1]].condition # "ERROR" =>
                    monitor'.vital_history[call'.vitals[i][1]] =
                       Append(HistoryOf(monitor.vital_history, call'.vitals[i][1]),
                              ReadingOf(call'.vitals[i][2]))]_vars

\* the temperature history holds a normal reading followed by a critical one
C20_Witness ==
    /\ "temperature" \in DOMAIN monitor.vital_history
    /\ monitor.vital_history["temperature"] =
          << VitalReading(Num(96000), "F", "manual"),
             VitalReading(Num(105000), "F", "manual") >>
    /\ Monitored
    /\ call.outcome.value.assessments["temperature"].condition = "HYPER_THERMIA"

(***************************************************************************)
(* C21                                                                     *)
(***************************************************************************)
\* the smaller of two numbers
Min(a, b) == IF a < b THEN a ELSE b

\* the last n entries of a sequence, in their order
LastEntries(lst, n) == SubSeq(lst, Len(lst) - n + 1, Len(lst))

\* C21: get_vital_trends(vital_type, limit) returns, for every limit >= 0, the
\* last min(limit, len(history)) entries of the history of the vital type in
\* their order (none for limit 0), and no entry for a vital type without history
C21_LastLimitEntries ==
    (call.op = "get_vital_trends" /\ call.limit >= 0) =>
        LET history == HistoryOf(monitor.vital_history, call.vital_type)
            expected == LastEntries(history, Min(call.limit, Len(history)))
        IN  /\ Len(call.outcome.value) = Min(call.limit, Len(history))
            /\ \A i \in DOMAIN expected :
                  /\ call.outcome.value[i].value = expected[i].value
                  /\ call.outcome.value[i].unit = expected[i].unit
                  /\ call.outcome.value[i].source = expected[i].source

(***************************************************************************)
(* C23                                                                     *)
(***************************************************************************)
\* the vital is known and its value is a number inside the limits, both bounds
\* included: temperature 95..102, pulseRate 60..100, spo2 90..100
WithinStrictLimits(item) ==
    /\ item[1] \in KnownVitals
    /\ item[2].value.t = "num"
    /\ CASE item[1] = "temperature" -> 95000 <= item[2].value.n /\ item[2].value.n <= 102000
         [] item[1] = "pulseRate" -> 60000 <= item[2].value.n /\ item[2].value.n <= 100000
         [] item[1] = "spo2" -> 90000 <= item[2].value.n /\ item[2].value.n <= 100000

\* the items of a batch that are not within the strict limits, in their order
OutOfRange(vitals) ==
    LET failing(item) == ~WithinStrictLimits(item)
    IN  SelectSeq(vitals, failing)

\* C23: vitals_ok of monitor returns all_ok = True iff every submitted vital is
\* known and has min <= value <= max, both bounds included; the failures hold
\* one pair per other vital, in input order, with the fixed message of the
\* vital when it is known; and all_ok is True iff the failures are empty
C23_StrictLegacy ==
    call.op = "monitor.vitals_ok" =>
        LET result == call.outcome.value
            failing == OutOfRange(call.vitals)
        IN  /\ result.all_ok <=> \A i \in DOMAIN call.vitals : WithinStrictLimits(call.vitals[i])
            /\ result.all_ok <=> result.failures = << >>
            /\ Len(result.failures) = Len(failing)
            /\ \A i \in DOMAIN failing :
                  /\ result.failures[i][1] = failing[i][1]
                  /\ failing[i][1] = "temperature" =>
                        result.failures[i][2] = << "Temperature ", "critical", "!" >>
                  /\ failing[i][1] = "pulseRate" =>
                        result.failures[i][2] = << "Pulse Rate is out of range!" >>
                  /\ failing[i][1] = "spo2" =>
                        result.failures[i][2] = << "Oxygen Saturation out of range!" >>

\* the three upper limits have been found OK together
C23_Witness ==
    /\ call.op = "monitor.vitals_ok"
    /\ call.vitals = << << "temperature", Scalar(Num(102000)) >>,
                        << "pulseRate", Scalar(Num(100000)) >>,
                        << "spo2", Scalar(Num(100000)) >> >>
    /\ call.outcome.value.all_ok

(***************************************************************************)
(* C24                                                                     *)
(***************************************************************************)
\* the batch holds numbers for temperature, pulseRate and spo2 only
KnownScalars(vitals) ==
    \A i \in DOMAIN vitals : vitals[i][1] \in KnownVitals /\ vitals[i][2].value.t = "num"

\* C24: for every batch of numbers over temperature, pulseRate and spo2, the
\* vitals in the failures of vitals_ok of monitor are the vitals in the
\* critical failures of vitals_ok_enhanced on the same values
C24_StrictIsCriticalTier ==
    (call.op = "monitor.vitals_ok" /\ KnownScalars(call.vitals)) =>
        Names(call.outcome.value.failures) =
           Names(vitals_ok_enhanced(CURRENT_LANGUAGE, call.vitals).value.failed)

(***************************************************************************)
(* C25                                                                     *)
(***************************************************************************)
\* the condition process_single_vital gives the item
TableCondition(item) ==
    process_single_vital(CURRENT_LANGUAGE, item[1], item[2]).value.condition

\* one vital of the batch is in a warning tier, and every other is NORMAL and
\* at or above its lower and below its upper limit
OneWarningNoCritical(vitals) ==
    /\ Cardinality({i \in DOMAIN vitals :
                       TableCondition(vitals[i]) \in WARNING_CONDITIONS}) = 1
    /\ \A i \in DOMAIN vitals :
          \/ TableCondition(vitals[i]) \in WARNING_CONDITIONS
          \/ /\ TableCondition(vitals[i]) = "NORMAL"
             /\ VITAL_LIMITS[vitals[i][1]].min <= vitals[i][2].value.n
             /\ vitals[i][2].value.n < VITAL_LIMITS[vitals[i][1]].max

StrictlyOrdered(ranges) ==
    /\ ranges[1] < ranges[2]
    /\ ranges[2] < ranges[3]
    /\ ranges[3] < ranges[4]

\* C27: limits whose warning tolerance is 50% of the range or more are rejected
\* with an invalid-tolerance-configuration error when they are made or their
\* warning ranges are computed, and the limits a reading is assessed against
\* satisfy min < min+tol < max-tol < max
C27_InvalidToleranceRejected ==
    /\ (call.op = "VitalLimits" /\ 2 * call.limits.warning_tolerance >= 100 * Scale)
          => call.outcome.raised = "InvalidToleranceConfiguration"
    /\ call.op = "VitalLimits" /\ call.outcome.raised = ""
          => StrictlyOrdered(call.outcome.value)
    /\ Assessed => StrictlyOrdered(calculate_warning_ranges(ProfileLimits))

(***************************************************************************)
(* C28                                                                     *)
(***************************************************************************)
\* the vital types both classifiers know
SharedVitals == {"temperature", "pulseRate", "spo2"}

\* a numeric reading of a shared vital type in C or F, under the default adult
\* profile, both languages en
ComparableInput ==
    /\ monitor.patient_profile = DefaultProfile
    /\ monitor.language = "en"
    /\ CURRENT_LANGUAGE = "en"
    /\ input.vital_type \in SharedVitals
    /\ input.value \in {Num(v) : v \in Values(input.vital_type)}
    /\ input.unit \in {"C", "F"}

\* C28: under the default adult profile and language en, assess_vital and
\* process_single_vital give every numeric reading of temperature, pulseRate
\* and spo2 in C or F the same condition
C28_SameClassification ==
    (ComparableInput /\ call.op \in {"assess_vital", "process_single_vital"}) =>
        /\ assess_vital(monitor, input.vital_type, InputReading).raised = ""
        /\ process_single_vital(CURRENT_LANGUAGE, input.vital_type,
                                Dict(input.value, Some(input.unit))).raised = ""
        /\ assess_vital(monitor, input.vital_type, InputReading).value.condition
             = process_single_vital(CURRENT_LANGUAGE, input.vital_type,
                                    Dict(input.value, Some(input.unit))).value.condition

(***************************************************************************)
(* C29                                                                     *)
(***************************************************************************)
\* the assessments monitor_vitals makes inside vitals_ok_advanced
AssessmentsOfCall ==
    monitor_vitals(create_monitor(monitor.patient_profile.age, "adult"),
                   call.vitals).results.assessments

\* C29: vitals_ok_advanced returns overall_ok = True only if every vital of the
\* batch was assessed and found NORMAL; a vital that ends as an ERROR entry
\* makes overall_ok False
C29_OkMeansAllAssessedNormal ==
    (call.op = "vitals_ok_advanced" /\ call.outcome.value.overall_ok) =>
        \A i \in DOMAIN call.vitals :
            AssessmentsOfCall[call.vitals[i][1]].condition = "NORMAL"

(***************************************************************************)
(* C30                                                                     *)
(***************************************************************************)
\* C30: a history holds only readings whose assessment succeeds: a reading
\* with a rejected unit or a value that is no number is not appended, and
\* get_vital_trends never returns it
C30_HistoryHoldsAssessedOnly ==
    /\ \A vital_type \in DOMAIN monitor.vital_history :
          \A i \in DOMAIN monitor.vital_history[vital_type] :
              assess_vital(monitor, vital_type,
                           monitor.vital_history[vital_type][i]).raised = ""
    /\ call.op = "get_vital_trends" =>
          \A i \in DOMAIN call.outcome.value :
              assess_vital(monitor, call.vital_type,
                           VitalReading(call.outcome.value[i].value,
                                        call.outcome.value[i].unit,
                                        call.outcome.value[i].source)).raised = ""

(***************************************************************************)
(* C22                                                                     *)
(***************************************************************************)
\* the history of a vital type: the list vital_history refers to
History(vital_type) ==
    IF vital_type \in DOMAIN monitor.vital_history
    THEN heap[monitor.vital_history[vital_type]]
    ELSE << >>

\* the readings submitted for a vital type: the recorded one and the threads'
Submitted(vital_type) ==
    (IF vital_type = "temperature"
     THEN {input.stored[i] : i \in DOMAIN input.stored} ELSE {})
       \cup {threads[t].reading : t \in {w \in Writers : threads[w].vital_type = vital_type}}

Occurrences(lst, x) == Cardinality({i \in DOMAIN lst : lst[i] = x})

AllDone == \A t \in DOMAIN threads : threads[t].pc = "done"

\* what get_vital_trends returns of the first k entries of a history
WindowOf(lst, k, vital_type, limit) ==
    get_vital_trends([vital_history |-> [v \in {vital_type} |-> SubSeq(lst, 1, k)]],
                     vital_type, limit)

\* C22: when the threads calling monitor_vitals on one monitor have finished,
\* each history holds exactly one entry per submitted reading, none lost and
\* none twice, also when two threads submit the first reading of a vital type;
\* and what a concurrent get_vital_trends returned is the last-limit window of
\* a prefix of that history
C22_NoReadingLost ==
    AllDone =>
        /\ \A vital_type \in ThreadVitals :
              /\ Len(History(vital_type)) = Cardinality(Submitted(vital_type))
              /\ \A r \in Submitted(vital_type) :
                    Occurrences(History(vital_type), r) = 1
        /\ \A t \in Readers :
              \E k \in 0..Len(History(threads[t].vital_type)) :
                  threads[t].result = WindowOf(History(threads[t].vital_type), k,
                                               threads[t].vital_type, threads[t].limit)

=============================================================================
